---- MODULE Spec2Model ----
(***************************************************************************)
(* Model of streamlit_app_supabase.py: the three tables of the PostgreSQL  *)
(* store, the st.cache_data memo of load_data(), the top-to-bottom script  *)
(* run of main() and the filter / aggregation pipeline main() applies to   *)
(* the loaded tables.                                                      *)
(*                                                                         *)
(* Conventions.  Text is a sequence of one-character strings, so that      *)
(* strip(), astype(str), zfill() and str.contains() are computed and not   *)
(* assumed.  A nullable value (SQL NULL, Python None, pandas NaN) is the   *)
(* empty tuple, a present value v is <<v>>.  A pandas DataFrame is the     *)
(* sequence of its rows; a DataFrame built from no rows has no columns, so *)
(* selecting columns of it raises KeyError.  Amounts are whole numbers of  *)
(* the currency's smallest unit; floating-point rounding is not modelled.  *)
(***************************************************************************)
EXTENDS Integers, Sequences, FiniteSets, TLC

VARIABLES
    companies,      \* table companies: set of [id, name]
    expenses,       \* table expenses: rows in id order
    sales,          \* table sales: set of [month, year, amount]
    cache,          \* st.cache_data entry of load_data(): None or Some(dfs)
    pc,             \* position of the running script in main()
    clicked,        \* the button whose click started this script run
    new_company_name, \* main()'s local new_company_name (line 128)
    dfs,            \* main()'s local dfs: None or Some(tables)
    wrote,          \* a mutation has committed earlier in this script run
    outcome,        \* how the last rendering (lines 174-284) ended
    lastSale,       \* history: key -> arguments of the latest upsert_sales
    p_tables,       \* pipeline input: the loaded tables
    p_criteria,     \* pipeline input: the widget values of lines 177-185
    p_pc,           \* pipeline position
    p_err,          \* exception raised by the pipeline, or "none"
    filtered,       \* main()'s local filtered
    total_spent,    \* main()'s local total_spent
    unpaid_total,   \* main()'s local unpaid_total
    summary_month,  \* main()'s local summary_month
    summary_company,\* main()'s local summary_company
    merged          \* main()'s local merged

appVars == <<companies, expenses, sales, cache, pc, clicked, new_company_name, dfs, wrote,
            outcome, lastSale>>
pipeVars == <<p_tables, p_criteria, p_pc, p_err, filtered, total_spent, unpaid_total,
              summary_month, summary_company, merged>>
vars == <<appVars, pipeVars>>

----------------------------------------------------------------------------
(* Nullable values *)

None == <<>>
Some(v) == <<v>>
Get(o) == o[1]

----------------------------------------------------------------------------
(* Text *)

Digits == <<"0", "1", "2", "3", "4", "5", "6", "7", "8", "9">>

\* str(n) of a non-negative int
RECURSIVE NatToStr(_)
NatToStr(n) ==
    IF n < 10 THEN <<Digits[n + 1]>>
    ELSE NatToStr(n \div 10) \o <<Digits[(n % 10) + 1]>>

\* str.zfill(width)
RECURSIVE zfill(_, _)
zfill(s, width) == IF Len(s) >= width THEN s ELSE zfill(<<"0">> \o s, width)

\* str.lower() of one character, on the letters the model's texts use
LowerChar(c) ==
    CASE c = "A" -> "a"
      [] c = "B" -> "b"
      [] c = "E" -> "e"
      [] c = "N" -> "n"
      [] OTHER -> c

lower(s) == [i \in 1..Len(s) |-> LowerChar(s[i])]

\* str.strip(): drops leading and trailing blanks
RECURSIVE lstrip(_)
lstrip(s) == IF s # <<>> /\ Head(s) = " " THEN lstrip(Tail(s)) ELSE s

RECURSIVE rstrip(_)
rstrip(s) == IF s # <<>> /\ s[Len(s)] = " " THEN rstrip(SubSeq(s, 1, Len(s) - 1)) ELSE s

strip(s) == rstrip(lstrip(s))

\* needle occurs in hay (re.search of a pattern made of letters, digits only)
IsSubstring(needle, hay) ==
    \E i \in 0..(Len(hay) - Len(needle)) : SubSeq(hay, i + 1, i + Len(needle)) = needle

\* Series.str.contains(pat, case=False, na=False) on a string already
\* produced by astype(str): no value is missing any more at this point
str_contains(value, pat) == IsSubstring(lower(pat), lower(value))

\* Series.astype(str) on an object column: None becomes the text "None"
astype_str_object(o) == IF o = None THEN <<"N", "o", "n", "e">> ELSE Get(o)

\* Series.astype(str) on a float64 column: NaN becomes "nan", 5.0 becomes "5.0"
astype_str_float(o) ==
    IF o = None THEN <<"n", "a", "n">> ELSE NatToStr(Get(o)) \o <<".", "0">>

\* ORDER BY name: text order, on the characters company names use
CharRank(c) ==
    CASE c = " " -> 0
      [] c = "A" -> 1
      [] c = "B" -> 2
      [] OTHER -> 3

RECURSIVE TextLE(_, _)
TextLE(a, b) ==
    IF a = <<>> THEN TRUE
    ELSE IF b = <<>> THEN FALSE
    ELSE IF CharRank(Head(a)) # CharRank(Head(b)) THEN CharRank(Head(a)) < CharRank(Head(b))
    ELSE TextLE(Tail(a), Tail(b))

----------------------------------------------------------------------------
(* Dates: datetime.date is the triple (year, month, day) *)

DateLE(a, b) ==
    \/ a.year < b.year
    \/ a.year = b.year /\ a.month < b.month
    \/ a.year = b.year /\ a.month = b.month /\ a.day <= b.day

----------------------------------------------------------------------------
(* The filter pipeline, lines 187-204 *)

AllSentinel == <<"*">>
StatusPaid == "tam_alsarf"
StatusUnpaid == "lam_yatim"

Ok(rows) == [err |-> "none", rows |-> rows]
Raised(e) == [err |-> e, rows |-> <<>>]

\* line 189
apply_date_filter(rows, start_date, end_date) ==
    SelectSeq(rows, LAMBDA r : DateLE(start_date, r.expense_date)
                               /\ DateLE(r.expense_date, end_date))

\* lines 192-196: every column goes through astype(str) before str.contains
search_mask(r, search_term) ==
    \/ str_contains(astype_str_object(r.expense_number), search_term)
    \/ str_contains(astype_str_object(r.amount_raw), search_term)
    \/ str_contains(astype_str_float(r.amount), search_term)

\* lines 191-197
apply_search(rows, search_term) ==
    IF search_term = <<>> THEN rows
    ELSE SelectSeq(rows, LAMBDA r : search_mask(r, search_term))

\* lines 199-201: .iloc[0] of an empty selection raises IndexError; a
\* companies frame without rows has no 'name' column
apply_company_filter(rows, comps, company_filter) ==
    IF company_filter = AllSentinel THEN Ok(rows)
    ELSE IF comps = <<>> THEN Raised("KeyError")
    ELSE LET hits == SelectSeq(comps, LAMBDA c : c.name = company_filter)
         IN  IF hits = <<>> THEN Raised("IndexError")
             ELSE Ok(SelectSeq(rows, LAMBDA r : r.company_id = Some(hits[1].id)))

\* lines 203-204
apply_status_filter(rows, status_filter) ==
    IF status_filter = "all" THEN rows
    ELSE SelectSeq(rows, LAMBDA r : r.status = status_filter)

\* lines 187-204 in order
apply_filters(t, c) ==
    LET byDate == apply_date_filter(t.expenses, c.start_date, c.end_date)
        bySearch == apply_search(byDate, c.search_term)
        byCompany == apply_company_filter(bySearch, t.companies, c.company_filter)
    IN  IF byCompany.err # "none" THEN byCompany
        ELSE Ok(apply_status_filter(byCompany.rows, c.status_filter))

----------------------------------------------------------------------------
(* Aggregation, lines 219-231 *)

\* Series.sum(): NaN is skipped, the sum of nothing is 0
RECURSIVE sum_amount(_)
sum_amount(rows) ==
    IF rows = <<>> THEN 0
    ELSE (IF Head(rows).amount = None THEN 0 ELSE Get(Head(rows).amount))
         + sum_amount(Tail(rows))

\* line 220
sum_unpaid(rows) == sum_amount(SelectSeq(rows, LAMBDA r : r.status # StatusPaid))

period_key(year, month) == NatToStr(year) \o <<"-">> \o zfill(NatToStr(month), 2)

MonthKeyLE(a, b) == a[1] < b[1] \/ (a[1] = b[1] /\ a[2] <= b[2])

RECURSIVE sorted_month_keys(_)
sorted_month_keys(S) ==
    IF S = {} THEN <<>>
    ELSE LET k == CHOOSE x \in S : \A y \in S : MonthKeyLE(x, y)
         IN  <<k>> \o sorted_month_keys(S \ {k})

\* line 226 with .count() in the place of .sum()
groupby_month_count(rows) ==
    LET ks == sorted_month_keys({<<rows[i].year, rows[i].month>> : i \in DOMAIN rows})
    IN  [i \in DOMAIN ks |->
            [year |-> ks[i][1], month |-> ks[i][2],
             amount |-> Len(SelectSeq(rows, LAMBDA r : /\ r.year = ks[i][1]
                                                       /\ r.month = ks[i][2]
                                                       /\ r.amount # None))]]

\* line 226: groupby(['year','month'])['amount'].sum().reset_index()
groupby_month(rows) ==
    LET ks == sorted_month_keys({<<rows[i].year, rows[i].month>> : i \in DOMAIN rows})
    IN  [i \in DOMAIN ks |->
            [year |-> ks[i][1], month |-> ks[i][2],
             amount |-> sum_amount(SelectSeq(rows, LAMBDA r : r.year = ks[i][1]
                                                              /\ r.month = ks[i][2]))]]

\* lines 226-227
make_summary_month(rows) ==
    LET g == groupby_month(rows)
    IN  [i \in DOMAIN g |->
            [year |-> g[i].year, month |-> g[i].month, amount |-> g[i].amount,
             period |-> period_key(g[i].year, g[i].month)]]

RECURSIVE sorted_ints(_)
sorted_ints(S) ==
    IF S = {} THEN <<>>
    ELSE LET k == CHOOSE x \in S : \A y \in S : x <= y
         IN  <<k>> \o sorted_ints(S \ {k})

\* line 228: groupby('company_id') drops the rows whose key is NaN
groupby_company(rows) ==
    LET ks == sorted_ints({Get(rows[i].company_id) :
                             i \in {j \in DOMAIN rows : rows[j].company_id # None}})
    IN  [i \in DOMAIN ks |->
            [company_id |-> ks[i],
             amount |-> sum_amount(SelectSeq(rows, LAMBDA r : r.company_id = Some(ks[i])))]]

\* line 230: merge(companies[['id','name']], how='left')
RECURSIVE merge_left_companies(_, _)
merge_left_companies(groups, comps) ==
    IF groups = <<>> THEN <<>>
    ELSE LET g == Head(groups)
             m == SelectSeq(comps, LAMBDA c : c.id = g.company_id)
             out == IF m = <<>>
                    THEN <<[company_id |-> g.company_id, amount |-> g.amount,
                            id |-> None, name |-> None]>>
                    ELSE [i \in DOMAIN m |->
                            [company_id |-> g.company_id, amount |-> g.amount,
                             id |-> Some(m[i].id), name |-> Some(m[i].name)]]
         IN  out \o merge_left_companies(Tail(groups), comps)

\* line 231: sort_values('amount', ascending=False), by insertion
RECURSIVE insert_desc(_, _)
insert_desc(x, s) ==
    IF s = <<>> THEN <<x>>
    ELSE IF Head(s).amount >= x.amount THEN <<Head(s)>> \o insert_desc(x, Tail(s))
    ELSE <<x>> \o s

RECURSIVE sort_values_desc(_)
sort_values_desc(s) ==
    IF s = <<>> THEN <<>>
    ELSE insert_desc(s[Len(s)], sort_values_desc(SubSeq(s, 1, Len(s) - 1)))

\* lines 228-231: the merge is skipped for an empty grouping; companies
\* without rows has no 'id' and 'name' columns to select
make_summary_company(rows, comps) ==
    LET g == groupby_company(rows)
    IN  IF g = <<>> THEN Ok(<<>>)
        ELSE IF comps = <<>> THEN Raised("KeyError")
        ELSE Ok(sort_values_desc(merge_left_companies(g, comps)))

----------------------------------------------------------------------------
(* Merge with sales, lines 237-241 *)

\* line 240
sales_with_period(sales_df) ==
    [i \in DOMAIN sales_df |->
        [period |-> period_key(sales_df[i].year, sales_df[i].month),
         amount |-> sales_df[i].amount]]

RECURSIVE merge_left_sales(_, _)
merge_left_sales(left, right) ==
    IF left = <<>> THEN <<>>
    ELSE LET l == Head(left)
             m == SelectSeq(right, LAMBDA s : s.period = l.period)
             out == IF m = <<>>
                    THEN <<[year |-> l.year, month |-> l.month, period |-> l.period,
                            amount_expenses |-> l.amount, amount_sales |-> None]>>
                    ELSE [i \in DOMAIN m |->
                            [year |-> l.year, month |-> l.month, period |-> l.period,
                             amount_expenses |-> l.amount,
                             amount_sales |-> Some(m[i].amount)]]
         IN  out \o merge_left_sales(Tail(left), right)

\* lines 237-241: line 240 is skipped for a sales frame without rows, and
\* line 241 then selects the columns 'period' and 'amount' it does not have
sales_join(sm, sales_df) ==
    IF sm = <<>> THEN Ok(<<>>)
    ELSE IF sales_df = <<>> THEN Raised("KeyError")
    ELSE Ok(merge_left_sales(sm, sales_with_period(sales_df)))

\* lines 174-284 as one result: "info" (no expenses), "ok", or the exception
render(t, c) ==
    IF t.expenses = <<>> THEN "info"
    ELSE LET f == apply_filters(t, c)
         IN  IF f.err # "none" THEN f.err
             ELSE LET sc == make_summary_company(f.rows, t.companies)
                  IN  IF sc.err # "none" THEN sc.err
                      ELSE LET j == sales_join(make_summary_month(f.rows), t.sales)
                           IN  IF j.err # "none" THEN j.err ELSE "ok"

----------------------------------------------------------------------------
(* The store: the SQL statements of lines 61-68, 77, 85-100, 108-115 *)

\* the statement of line 77 without its ON CONFLICT clause
insert_company_without_conflict_clause(tbl, name) ==
    tbl \cup {[id |-> Cardinality(tbl) + 1, name |-> name]}

\* line 77: INSERT ... ON CONFLICT (name) DO NOTHING; id is server-assigned
insert_company(tbl, name) ==
    IF \E c \in tbl : c.name = name THEN tbl
    ELSE tbl \cup {[id |-> Cardinality(tbl) + 1, name |-> name]}

\* the statement of lines 85-100 with date.day passed for the month
insert_expense_day_for_month(tbl, number, amount, amount_raw, company_id, status, date) ==
    tbl \cup {[id |-> Cardinality(tbl) + 1,
               expense_number |-> Some(number),
               amount |-> Some(amount),
               amount_raw |-> Some(amount_raw),
               company_id |-> company_id,
               status |-> status,
               expense_date |-> date,
               month |-> date.day,
               year |-> date.year]}

\* lines 85-100: month and year are taken from the date
insert_expense(tbl, expense_number, amount, amount_raw, company_id, status, date) ==
    tbl \cup {[id |-> Cardinality(tbl) + 1,
               expense_number |-> Some(expense_number),
               amount |-> Some(amount),
               amount_raw |-> Some(amount_raw),
               company_id |-> company_id,
               status |-> status,
               expense_date |-> date,
               month |-> date.month,
               year |-> date.year]}

\* the statement of lines 108-115 without its ON CONFLICT clause
upsert_sales_without_conflict_clause(tbl, month, year, amount) ==
    tbl \cup {[month |-> month, year |-> year, amount |-> amount]}

\* lines 108-115: INSERT ... ON CONFLICT (month, year) DO UPDATE SET amount
upsert_sales(tbl, month, year, amount) ==
    IF \E r \in tbl : r.month = month /\ r.year = year
    THEN {IF r.month = month /\ r.year = year THEN [r EXCEPT !.amount = amount] ELSE r :
            r \in tbl}
    ELSE tbl \cup {[month |-> month, year |-> year, amount |-> amount]}

\* line 61: SELECT * FROM companies ORDER BY name
RECURSIVE order_by_name(_)
order_by_name(S) ==
    IF S = {} THEN <<>>
    ELSE LET m == CHOOSE x \in S : \A y \in S : TextLE(x.name, y.name)
         IN  <<m>> \o order_by_name(S \ {m})

\* line 63: SELECT * FROM expenses ORDER BY id
RECURSIVE order_by_id(_)
order_by_id(S) ==
    IF S = {} THEN <<>>
    ELSE LET m == CHOOSE x \in S : \A y \in S : x.id <= y.id
         IN  <<m>> \o order_by_id(S \ {m})

\* line 68: SELECT * FROM sales ORDER BY year, month
RECURSIVE order_by_year_month(_)
order_by_year_month(S) ==
    IF S = {} THEN <<>>
    ELSE LET m == CHOOSE x \in S :
                    \A y \in S : MonthKeyLE(<<x.year, x.month>>, <<y.year, y.month>>)
         IN  <<m>> \o order_by_year_month(S \ {m})

\* line 66: pd.to_numeric(errors='coerce') of the numeric column: NULL is NaN
to_numeric(a) == IF a = None THEN None ELSE Some(Get(a))

\* lines 58-71: the body of load_data(), a read of the three tables
query_tables(c, e, s) ==
    [companies |-> order_by_name(c),
     expenses |-> LET rows == order_by_id(e)
                  IN  [i \in DOMAIN rows |-> [rows[i] EXCEPT !.amount = to_numeric(@)]],
     sales |-> order_by_year_month(s)]

----------------------------------------------------------------------------
(* st.cache_data: line 55 and the clear() calls of lines 132, 154, 164 *)

\* the entry load_data() leaves in the cache: kept on a hit, filled on a miss
cache_after_load(entry, c, e, s) ==
    IF entry = None THEN Some(query_tables(c, e, s)) ELSE entry

\* a clear() that leaves the entry of load_data() in place
cache_data_clear_keeps_entry(entry) == entry

\* st.cache_data.clear()
cache_data_clear(entry) == None

----------------------------------------------------------------------------
(* Widget values *)

MaxExpenses == 1

NameInputs == {<<>>, <<" ">>, <<"A">>, <<" ", "A">>, <<"B">>}
ExpenseNumberInputs == {<<>>, <<"E", "1">>}
AmountRawInputs == {<<"a">>, <<"5">>}
AmountValInputs == {0, 5}
StatusInputs == {StatusUnpaid}
DateInputs == {[year |-> 2024, month |-> 1, day |-> 15],
               [year |-> 2024, month |-> 2, day |-> 10]}
MonthInputs == {1, 2}
YearInputs == {2024}
SalesAmountInputs == {7, 9}
SearchInputs == {<<>>, <<"5">>}
SaleKeys == MonthInputs \X YearInputs
Buttons == {"none", "company", "expense", "sales"}

\* line 140
company_options(company_names) == {company_names[i].name : i \in DOMAIN company_names}

\* lines 147-151
lookup_company_id(company_names, company_name) ==
    IF company_names = <<>> THEN None
    ELSE LET rec == SelectSeq(company_names, LAMBDA c : c.name = company_name)
         IN  IF rec = <<>> THEN None ELSE Some(rec[1].id)

----------------------------------------------------------------------------
(* One script run of main(), lines 120-284 *)

NoTables == [companies |-> <<>>, expenses |-> <<>>, sales |-> <<>>]
NoCriteria == [search_term |-> <<>>, company_filter |-> AllSentinel,
               status_filter |-> "all",
               start_date |-> [year |-> 0, month |-> 0, day |-> 0],
               end_date |-> [year |-> 0, month |-> 0, day |-> 0]]

PipeIdle ==
    /\ p_tables = NoTables
    /\ p_criteria = NoCriteria
    /\ p_pc = "off"
    /\ p_err = "none"
    /\ filtered = <<>>
    /\ total_spent = 0
    /\ unpaid_total = 0
    /\ summary_month = <<>>
    /\ summary_company = <<>>
    /\ merged = <<>>

AppInit ==
    /\ companies = {}
    /\ expenses = {}
    /\ sales = {}
    /\ cache = None
    /\ pc = "idle"
    /\ clicked = "none"
    /\ new_company_name = <<>>
    /\ dfs = None
    /\ wrote = FALSE
    /\ outcome = "none"
    /\ lastSale = [k \in SaleKeys |-> None]

\* a fresh database, an empty cache, no script running
Init == AppInit /\ PipeIdle

\* a widget interaction starts a script run; at most one button is clicked
Start ==
    /\ pc = "idle"
    /\ \E b \in Buttons :
          /\ b = "expense" => Cardinality(expenses) < MaxExpenses
          /\ clicked' = b
    /\ pc' = "l129"
    /\ outcome' = "running"
    /\ UNCHANGED <<companies, expenses, sales, cache, dfs, wrote, lastSale, new_company_name>>
    /\ UNCHANGED pipeVars

\* lines 128-131
AddCompany ==
    /\ pc = "l129"
    /\ IF clicked = "company"
       THEN \E name \in NameInputs :
               IF strip(name) # <<>>
               THEN /\ new_company_name' = name
                    /\ companies' = insert_company(companies, strip(name))
                    /\ wrote' = TRUE
                    /\ pc' = "l132"
               ELSE /\ pc' = "l135"
                    /\ UNCHANGED <<companies, wrote, new_company_name>>
       ELSE /\ pc' = "l135"
            /\ UNCHANGED <<companies, wrote, new_company_name>>
    /\ UNCHANGED <<expenses, sales, cache, clicked, dfs, outcome, lastSale>>
    /\ UNCHANGED pipeVars

\* line 132; new_company_name is not read after line 130
ClearAfterCompany ==
    /\ pc = "l132"
    /\ cache' = cache_data_clear(cache)
    /\ new_company_name' = <<>>
    /\ pc' = "l135"
    /\ UNCHANGED <<companies, expenses, sales, clicked, dfs, wrote, outcome, lastSale>>
    /\ UNCHANGED pipeVars

\* line 135
LoadForForm ==
    /\ pc = "l135"
    /\ cache' = cache_after_load(cache, companies, expenses, sales)
    /\ dfs' = cache'
    /\ pc' = "l136"
    /\ UNCHANGED <<companies, expenses, sales, clicked, wrote, outcome, lastSale, new_company_name>>
    /\ UNCHANGED pipeVars

\* lines 136-153: the selectbox of line 141 returns None when it has no
\* options, and one of its options otherwise
AddExpense ==
    /\ pc = "l136"
    /\ IF clicked = "expense"
       THEN LET company_names == Get(dfs).companies
                opts == company_options(company_names)
            IN  \E expense_number \in ExpenseNumberInputs,
                   amount_raw \in AmountRawInputs,
                   amount_val \in AmountValInputs, status_value \in StatusInputs,
                   date_value \in DateInputs,
                   company_name \in (IF opts = {} THEN {None}
                                     ELSE {Some(n) : n \in opts}) :
                   IF /\ expense_number # <<>>
                      /\ company_name # None
                      /\ Get(company_name) # <<>>
                   THEN /\ expenses' =
                              insert_expense(expenses, expense_number, amount_val,
                                  amount_raw,
                                  lookup_company_id(company_names, Get(company_name)),
                                  status_value, date_value)
                        /\ wrote' = TRUE
                        /\ pc' = "l154"
                   ELSE /\ pc' = "l157"
                        /\ UNCHANGED <<expenses, wrote>>
       ELSE /\ pc' = "l157"
            /\ UNCHANGED <<expenses, wrote>>
    /\ UNCHANGED <<companies, sales, cache, clicked, dfs, outcome, lastSale, new_company_name>>
    /\ UNCHANGED pipeVars

\* line 154
ClearAfterExpense ==
    /\ pc = "l154"
    /\ cache' = cache_data_clear(cache)
    /\ pc' = "l157"
    /\ UNCHANGED <<companies, expenses, sales, clicked, dfs, wrote, outcome, lastSale, new_company_name>>
    /\ UNCHANGED pipeVars

\* lines 157-163
RecordSales ==
    /\ pc = "l157"
    /\ IF clicked = "sales"
       THEN \E month_num \in MonthInputs, year_num \in YearInputs,
               sales_amount \in SalesAmountInputs :
               /\ sales' = upsert_sales(sales, month_num, year_num, sales_amount)
               /\ lastSale' = [lastSale EXCEPT ![<<month_num, year_num>>] =
                                                  Some(sales_amount)]
               /\ wrote' = TRUE
               /\ pc' = "l164"
       ELSE /\ pc' = "l167"
            /\ UNCHANGED <<sales, lastSale, wrote>>
    /\ UNCHANGED <<companies, expenses, cache, clicked, dfs, outcome, new_company_name>>
    /\ UNCHANGED pipeVars

\* line 164
ClearAfterSales ==
    /\ pc = "l164"
    /\ cache' = cache_data_clear(cache)
    /\ pc' = "l167"
    /\ UNCHANGED <<companies, expenses, sales, clicked, dfs, wrote, outcome, lastSale, new_company_name>>
    /\ UNCHANGED pipeVars

\* line 167
LoadForMain ==
    /\ pc = "l167"
    /\ cache' = cache_after_load(cache, companies, expenses, sales)
    /\ dfs' = cache'
    /\ pc' = "l174"
    /\ UNCHANGED <<companies, expenses, sales, clicked, wrote, outcome, lastSale, new_company_name>>
    /\ UNCHANGED pipeVars

\* lines 177-185: the widgets offer the loaded names and statuses
widget_criteria(t) ==
    [search_term : SearchInputs,
     company_filter : {AllSentinel} \cup company_options(t.companies),
     status_filter : {"all"} \cup {t.expenses[i].status : i \in DOMAIN t.expenses},
     start_date : DateInputs,
     end_date : DateInputs]

\* lines 168-284: the run ends here, with the page or with the exception
Render ==
    /\ pc = "l174"
    /\ outcome' \in {render(Get(dfs), c) : c \in widget_criteria(Get(dfs))}
    /\ pc' = "idle"
    /\ dfs' = None
    /\ clicked' = "none"
    /\ wrote' = FALSE
    /\ UNCHANGED <<companies, expenses, sales, cache, lastSale, new_company_name>>
    /\ UNCHANGED pipeVars

\* line 55, ttl=300: the entry expires once it is five minutes old
Expire ==
    /\ cache # None
    /\ cache' = None
    /\ UNCHANGED <<companies, expenses, sales, pc, clicked, dfs, wrote, outcome, lastSale, new_company_name>>
    /\ UNCHANGED pipeVars

Next ==
    \/ Start
    \/ AddCompany
    \/ ClearAfterCompany
    \/ LoadForForm
    \/ AddExpense
    \/ ClearAfterExpense
    \/ RecordSales
    \/ ClearAfterSales
    \/ LoadForMain
    \/ Render
    \/ Expire

Spec == Init /\ [][Next]_vars

----------------------------------------------------------------------------
(* Lines 174-245 as a function of the tables load_data() returned and of   *)
(* the widget values.  The tables are those of a database this program did *)
(* not fill alone: load_data() and the pipeline provide for NULL amounts   *)
(* (line 66), texts and company ids.  The company filter ranges over names *)
(* whether or not the companies table lists them.                          *)

MaxRows == 2

Jan15 == [year |-> 2024, month |-> 1, day |-> 15]
Feb10 == [year |-> 2024, month |-> 2, day |-> 10]
Dec20 == [year |-> 2023, month |-> 12, day |-> 20]

ExpenseRow(number, raw, amount, company_id, status, date) ==
    [expense_number |-> number, amount_raw |-> raw, amount |-> amount,
     company_id |-> company_id, status |-> status, expense_date |-> date,
     month |-> date.month, year |-> date.year]

SampleExpenses ==
    {ExpenseRow(Some(<<"E", "1">>), Some(<<"5">>), Some(5), Some(1), StatusPaid, Jan15),
     ExpenseRow(Some(<<"E", "1">>), Some(<<"9">>), Some(9), Some(2), StatusUnpaid, Feb10),
     ExpenseRow(None, None, None, None, StatusUnpaid, Jan15),
     ExpenseRow(Some(<<"B", "2">>), Some(<<"a">>), None, Some(1), StatusUnpaid, Dec20),
     ExpenseRow(Some(<<"B", "2">>), Some(<<"7">>), Some(7), None, StatusPaid, Feb10)}

WithIds(rows) ==
    [i \in DOMAIN rows |->
        [id |-> i, expense_number |-> rows[i].expense_number,
         amount_raw |-> rows[i].amount_raw, amount |-> rows[i].amount,
         company_id |-> rows[i].company_id, status |-> rows[i].status,
         expense_date |-> rows[i].expense_date, month |-> rows[i].month,
         year |-> rows[i].year]]

PipeExpenseTables ==
    {WithIds(rows) : rows \in UNION {[1..n -> SampleExpenses] : n \in 0..MaxRows}}

PipeCompanyTables ==
    {<<>>,
     <<[id |-> 1, name |-> <<"A">>]>>,
     <<[id |-> 2, name |-> <<"A">>], [id |-> 1, name |-> <<"B">>]>>}

PipeSalesTables ==
    {<<>>,
     <<[month |-> 1, year |-> 2024, amount |-> 7]>>,
     <<[month |-> 1, year |-> 2024, amount |-> 7], [month |-> 2, year |-> 2024, amount |-> 9]>>}

\* line 178 sets the sentinel itself when the companies frame has no rows
pipe_criteria(t) ==
    [search_term : {<<>>, <<"n">>, <<"e">>, <<"5">>},
     company_filter : IF t.companies = <<>> THEN {AllSentinel}
                      ELSE {AllSentinel, <<"A">>, <<"B">>},
     status_filter : {"all", StatusUnpaid},
     start_date : {Dec20, Jan15},
     end_date : {Feb10}]

InitPipe ==
    /\ AppInit
    /\ p_tables \in [companies : PipeCompanyTables, expenses : PipeExpenseTables,
                     sales : PipeSalesTables]
    /\ p_criteria = NoCriteria
    /\ p_pc = "l174"
    /\ p_err = "none"
    /\ filtered = <<>>
    /\ total_spent = 0
    /\ unpaid_total = 0
    /\ summary_month = <<>>
    /\ summary_company = <<>>
    /\ merged = <<>>

\* lines 174-204, or line 284 when there is no expense
PipeFilter ==
    /\ p_pc = "l174"
    /\ p_err = "none"
    /\ IF p_tables.expenses = <<>>
       THEN /\ p_pc' = "l284"
            /\ UNCHANGED <<p_criteria, p_err, filtered>>
       ELSE \E c \in pipe_criteria(p_tables) :
               /\ p_criteria' = c
               /\ LET f == apply_filters(p_tables, c)
                  IN  IF f.err # "none"
                      THEN /\ p_err' = f.err
                           /\ UNCHANGED <<p_pc, filtered>>
                      ELSE /\ filtered' = f.rows
                           /\ p_pc' = "l219"
                           /\ UNCHANGED p_err
    /\ UNCHANGED <<p_tables, total_spent, unpaid_total, summary_month, summary_company,
                   merged>>
    /\ UNCHANGED appVars

\* lines 219-227
PipeTotals ==
    /\ p_pc = "l219"
    /\ total_spent' = sum_amount(filtered)
    /\ unpaid_total' = sum_unpaid(filtered)
    /\ summary_month' = make_summary_month(filtered)
    /\ p_pc' = "l228"
    /\ UNCHANGED <<p_tables, p_criteria, p_err, filtered, summary_company, merged>>
    /\ UNCHANGED appVars

\* lines 228-231
PipeCompanySummary ==
    /\ p_pc = "l228"
    /\ p_err = "none"
    /\ LET sc == make_summary_company(filtered, p_tables.companies)
       IN  IF sc.err # "none"
           THEN /\ p_err' = sc.err
                /\ UNCHANGED <<p_pc, summary_company>>
           ELSE /\ summary_company' = sc.rows
                /\ p_pc' = "l237"
                /\ UNCHANGED p_err
    /\ UNCHANGED <<p_tables, p_criteria, filtered, total_spent, unpaid_total,
                   summary_month, merged>>
    /\ UNCHANGED appVars

\* lines 237-241
PipeSalesJoin ==
    /\ p_pc = "l237"
    /\ p_err = "none"
    /\ LET j == sales_join(summary_month, p_tables.sales)
       IN  IF j.err # "none"
           THEN /\ p_err' = j.err
                /\ UNCHANGED <<p_pc, merged>>
           ELSE /\ merged' = j.rows
                /\ p_pc' = "done"
                /\ UNCHANGED p_err
    /\ UNCHANGED <<p_tables, p_criteria, filtered, total_spent, unpaid_total,
                   summary_month, summary_company>>
    /\ UNCHANGED appVars

NextPipe ==
    \/ PipeFilter
    \/ PipeTotals
    \/ PipeCompanySummary
    \/ PipeSalesJoin

SpecPipe == InitPipe /\ [][NextPipe]_vars

----------------------------------------------------------------------------
(* Properties of the script run *)

LoadStep == pc \in {"l135", "l167"} /\ pc' # pc

\* C1: within one script run, once a mutation has committed, every later
\* load_data() of that run returns exactly the tables the store holds then,
\* whatever entry the cache held when the mutation committed.
C1_ReadAfterWriteIsFresh ==
    [][(LoadStep /\ wrote) => dfs' = Some(query_tables(companies', expenses', sales'))]_vars

\* a run that upserted a sale while the cache was warm has reloaded: the
\* loaded sales are the store's
C1_Witness ==
    /\ pc = "l174"
    /\ wrote
    /\ clicked = "sales"
    /\ dfs = Some(query_tables(companies, expenses, sales))
    /\ companies # {}

RowsOfKey(tbl, k) == {r \in tbl : <<r.month, r.year>> = k}

\* C2: the sales table holds at most one row per (month, year), that row
\* carries the amount of the latest upsert_sales for the key, a key never
\* upserted has no row, and an upsert leaves the rows of other keys alone.
C2_UpsertKeepsOneRowPerKey ==
    /\ [](\A k \in SaleKeys :
            /\ Cardinality(RowsOfKey(sales, k)) <= 1
            /\ lastSale[k] = None => RowsOfKey(sales, k) = {}
            /\ lastSale[k] # None =>
                  RowsOfKey(sales, k) = {[month |-> k[1], year |-> k[2],
                                          amount |-> Get(lastSale[k])]})
    /\ [][\A k \in SaleKeys :
            lastSale'[k] = lastSale[k] => RowsOfKey(sales', k) = RowsOfKey(sales, k)]_vars

\* the store holds amount 9 for January 2024 while the cache, not yet
\* cleared, still holds the row with amount 7 that this upsert replaced,
\* and the row of February 2024 is there too
C2_Witness ==
    /\ pc = "l164"
    /\ cache # None
    /\ \E i \in DOMAIN Get(cache).sales :
          Get(cache).sales[i] = [month |-> 1, year |-> 2024, amount |-> 7]
    /\ [month |-> 1, year |-> 2024, amount |-> 9] \in sales
    /\ \E r \in sales : r.month = 2

\* C3: every company name occurs once and every id once; an insert_company
\* with a name already present leaves the table as it is, and one with a new
\* name adds exactly the row of that name under an unused id.
C3_InsertCompanyIdempotent ==
    /\ [](\A c1, c2 \in companies : (c1.name = c2.name \/ c1.id = c2.id) => c1 = c2)
    /\ [][(pc = "l129" /\ pc' = "l132") =>
            LET name == strip(new_company_name')
            IN  IF \E c \in companies : c.name = name
                THEN companies' = companies
                ELSE \E id \in 1..(Cardinality(companies) + 1) :
                        /\ \A c \in companies : c.id # id
                        /\ companies' = companies \cup {[id |-> id, name |-> name]}]_vars

\* insert_company has just run with a name the still uncleared cache, filled
\* before the call, already lists
C3_Witness ==
    /\ pc = "l132"
    /\ cache # None
    /\ \E i \in DOMAIN Get(cache).companies :
          Get(cache).companies[i].name = strip(new_company_name)
    /\ Cardinality(companies) = 2

\* float(text) succeeds, for texts of digits
IsNumericText(s) == s # <<>> /\ \A i \in DOMAIN s : \E d \in DOMAIN Digits : s[i] = Digits[d]

\* C7: an expense whose amount_raw text is not a number is stored with a
\* missing amount.
C7_UnparsableAmountIsMissing ==
    \A e \in expenses : ~IsNumericText(Get(e.amount_raw)) => e.amount = None

\* C10: every expense has a company_id, that of a company of the companies
\* table, its month and year are those of its expense_date with the month in
\* 1..12, and an add-expense click with no company to select inserts nothing.
C10_ExpenseReferencesCompany ==
    /\ [](\A e \in expenses :
            /\ e.company_id # None
            /\ \E c \in companies : c.id = Get(e.company_id)
            /\ e.month = e.expense_date.month
            /\ e.year = e.expense_date.year
            /\ e.month \in 1..12)
    /\ [][(pc = "l136" /\ clicked = "expense" /\ Get(dfs).companies = <<>>)
            => expenses' = expenses]_vars

\* an expense of February is stored under the id of company B, the second
\* of two companies
C10_Witness ==
    /\ Cardinality(companies) = 2
    /\ \E e \in expenses, c \in companies :
          /\ c.name = <<"B">>
          /\ e.company_id = Some(c.id)
          /\ e.month = 2

----------------------------------------------------------------------------
(* Properties of the pipeline *)

FilterActed == p_pc \in {"l219", "l228", "l237", "done"} \/ (p_pc = "l174" /\ p_err # "none")
TotalsActed == p_pc \in {"l228", "l237", "done"}
CompanySummaryActed == p_pc \in {"l237", "done"} \/ (p_pc = "l228" /\ p_err # "none")
SalesJoinActed == p_pc = "done" \/ (p_pc = "l237" /\ p_err # "none")

NameListed(name) == \E i \in DOMAIN p_tables.companies : p_tables.companies[i].name = name

PresentTexts(r) ==
    (IF r.expense_number = None THEN {} ELSE {Get(r.expense_number)})
    \cup (IF r.amount_raw = None THEN {} ELSE {Get(r.amount_raw)})
    \cup (IF r.amount = None THEN {} ELSE {astype_str_float(r.amount)})

\* C5: with a search term, every row kept has the term, case ignored, inside
\* one of its present searched values; a row with none present is dropped.
C5_MissingValuesNeverMatch ==
    (FilterActed /\ p_err = "none" /\ p_criteria.search_term # <<>>)
    => \A i \in DOMAIN filtered :
          \E v \in PresentTexts(filtered[i]) :
             IsSubstring(lower(p_criteria.search_term), lower(v))

SaleRowsOf(year, month) ==
    {j \in DOMAIN p_tables.sales :
        p_tables.sales[j].year = year /\ p_tables.sales[j].month = month}

\* C6: for a non-empty monthly summary the merge with sales does not fail
\* and has one record per period in the summary's order, carrying the amount
\* of the period's sale, or a missing amount when the period has no sale.
C6_SalesJoinIsTotal ==
    (SalesJoinActed /\ summary_month # <<>>)
    => /\ p_err = "none"
       /\ Len(merged) = Len(summary_month)
       /\ \A i \in DOMAIN merged :
             /\ merged[i].period = summary_month[i].period
             /\ merged[i].amount_expenses = summary_month[i].amount
             /\ LET js == SaleRowsOf(summary_month[i].year, summary_month[i].month)
                IN  IF js = {} THEN merged[i].amount_sales = None
                    ELSE \E j \in js :
                            merged[i].amount_sales = Some(p_tables.sales[j].amount)

RECURSIVE SumOfAmounts(_)
SumOfAmounts(rows) ==
    IF rows = <<>> THEN 0 ELSE Head(rows).amount + SumOfAmounts(Tail(rows))

PresentAmountOf(r) == IF r.amount = None THEN 0 ELSE Get(r.amount)

RECURSIVE SumOver(_, _)
SumOver(rows, I) ==
    IF I = {} THEN 0
    ELSE LET i == CHOOSE x \in I : TRUE
         IN  PresentAmountOf(rows[i]) + SumOver(rows, I \ {i})

\* C8: the amounts of the monthly summary add up to total_spent; the summary
\* has one row per (year, month) of the filtered rows, in ascending order,
\* each with the sum of the present amounts of the rows of that month.
C8_MonthlySummaryPreservesTotal ==
    TotalsActed
    => /\ SumOfAmounts(summary_month) = total_spent
       /\ total_spent = SumOver(filtered, DOMAIN filtered)
       /\ {<<summary_month[i].year, summary_month[i].month>> : i \in DOMAIN summary_month}
            = {<<filtered[i].year, filtered[i].month>> : i \in DOMAIN filtered}
       /\ \A i, j \in DOMAIN summary_month :
             i < j => \/ summary_month[i].year < summary_month[j].year
                      \/ /\ summary_month[i].year = summary_month[j].year
                         /\ summary_month[i].month < summary_month[j].month
       /\ \A i \in DOMAIN summary_month :
             summary_month[i].amount =
                SumOver(filtered, {k \in DOMAIN filtered :
                                      /\ filtered[k].year = summary_month[i].year
                                      /\ filtered[k].month = summary_month[i].month})

\* two filtered rows, February before December of the year before, one of
\* them without amount: two groups, December first
C8_Witness ==
    /\ TotalsActed
    /\ Len(filtered) = 2
    /\ filtered[1].month = 2
    /\ filtered[2].month = 12
    /\ filtered[2].amount = None
    /\ Len(summary_month) = 2
    /\ total_spent = 9

\* C9: the company summary has one row per company_id present in the
\* filtered rows, with a missing name for an id the companies table does not
\* list; its amounts add up to total_spent less the amounts of the rows
\* without company_id; the rows are in descending order of amount.
C9_CompanySummaryPerCompany ==
    CompanySummaryActed
    => /\ p_err = "none" \/ p_pc # "l228"
       /\ p_pc \in {"l237", "done"} =>
             /\ {summary_company[i].company_id : i \in DOMAIN summary_company}
                  = {Get(filtered[k].company_id) :
                       k \in {x \in DOMAIN filtered : filtered[x].company_id # None}}
             /\ \A i, j \in DOMAIN summary_company :
                   i < j => /\ summary_company[i].company_id # summary_company[j].company_id
                            /\ summary_company[i].amount >= summary_company[j].amount
             /\ \A i \in DOMAIN summary_company :
                   (\A c \in DOMAIN p_tables.companies :
                       p_tables.companies[c].id # summary_company[i].company_id)
                   => summary_company[i].name = None
             /\ SumOfAmounts(summary_company)
                  = total_spent
                    - SumOver(filtered, {k \in DOMAIN filtered :
                                           filtered[k].company_id = None})

====
